---- MODULE Spec2Model ----
(***************************************************************************)
(* Model of src/app.py: a role-gated inventory application (Flask +        *)
(* SQLAlchemy on MySQL/InnoDB).                                            *)
(*                                                                         *)
(* Every request handler is two steps.  The first step is the decorators   *)
(* (login_required, role_required) and the handler body up to, but not     *)
(* including, db.session.commit(): the reads of one request are taken from *)
(* one consistent snapshot of the store and the ORM keeps the new column   *)
(* values in the request's own session.  The second step is                *)
(* db.session.commit(): the flush (UPDATE / INSERT / DELETE statements     *)
(* with the values computed in the first step), the constraints the        *)
(* declared schema enforces (primary keys, the two foreign keys of         *)
(* Transaction), and the except-branch with db.session.rollback().         *)
(* Requests of different clients interleave between the two steps.         *)
(***************************************************************************)
EXTENDS Integers, Sequences, FiniteSets, TLC

VARIABLES
    users,      \* table user:            username -> [password_hash, role, name]
    items,      \* table inventory_item:  id -> [name, quantity, category, added_by, last_update]
    txns,       \* table transaction:     sequence of rows in insertion order
    nextId,     \* AUTO_INCREMENT counter of transaction.id
    nextUid,    \* AUTO_INCREMENT counter of user.id
    session,    \* per client: the signed session cookie, NoSession or session['user']
    req,        \* per client: the request in flight (handler locals) or the last response
    clock,      \* datetime.utcnow()
    seed,       \* history: id -> quantity the item was created with
    acked,      \* history: id -> net quantity of the record requests answered 201
    bound       \* history: per client, user.id of the record its session was made from

vars == <<users, items, txns, nextId, nextUid, session, req, clock, seed, acked, bound>>
store == <<users, items, txns, nextId, nextUid>>
hist == <<seed, acked>>

-----------------------------------------------------------------------------
(* Bounds *)

MaxTxn == 3          \* transaction ids handed out in one run
MaxQty == 2          \* largest quantity a request carries
MaxSeed == 2         \* largest stock an item starts with
MaxUid == 4          \* user ids handed out in one run
MaxRef == 1          \* transaction ids handed out where users are managed
MaxClock == 1        \* seconds that pass in one run

Clients == {"c1", "c2"}

-----------------------------------------------------------------------------
(* Values *)

NoSession == [username |-> "", role |-> "", name |-> <<>>]

Roles == {"admin", "manajer", "operator"}

\* A JSON value sent as a quantity: a number, a numeric string, another
\* string, or nothing (null / key absent).
QtyInt(n) == [kind |-> "int", val |-> n]
QtyStr(n) == [kind |-> "str", val |-> n]
QtyBad == [kind |-> "bad", val |-> 0]
QtyNone == [kind |-> "none", val |-> 0]

\* Python truthiness of the value: None, 0 and "" are falsy; "0" is truthy.
Truthy(qs) ==
    CASE qs.kind = "none" -> FALSE
      [] qs.kind = "int"  -> qs.val # 0
      [] OTHER            -> TRUE

IntRaisesNever(qs) == FALSE

\* int(quantity_str) raises ValueError/TypeError exactly for these.
IntRaises(qs) == qs.kind \in {"bad", "none"}

\* Text is a sequence of characters.  str.upper() on one character:
UpperChar(ch) ==
    CASE ch = "a" -> "A"
      [] ch = "b" -> "B"
      [] OTHER    -> ch

\* str.upper()
Upper(s) == [k \in 1..Len(s) |-> UpperChar(s[k])]

\* str.strip(): leading and trailing blanks removed.
RECURSIVE LStrip(_)
LStrip(s) == IF s # <<>> /\ Head(s) = " " THEN LStrip(Tail(s)) ELSE s

RECURSIVE RStrip(_)
RStrip(s) ==
    IF s # <<>> /\ s[Len(s)] = " " THEN RStrip(SubSeq(s, 1, Len(s) - 1)) ELSE s

StripLeading(s) == LStrip(s)

\* str.strip()
Strip(s) == RStrip(LStrip(s))


\* A row of table inventory_item.
ItemRow(name, quantity, category, added_by, t) ==
    [name |-> name, quantity |-> quantity, category |-> category,
     added_by |-> added_by, last_update |-> t]

\* A row of table user; set_password stores a hash, never the password.
UserRow(id, password, role, name) ==
    [id |-> id, password_hash |-> <<"hash", password>>, role |-> role, name |-> name]

\* A client's request: where it is (idle, pending: before its commit, done:
\* answered), the route, what the decorators decided, the answer, what was
\* sent, and the handler's locals.
Idle == [pc |-> "idle", op |-> "", gate |-> "", result |-> "", input |-> <<>>, a |-> <<>>]

Done(op, gate, result, input, a) ==
    [pc |-> "done", op |-> op, gate |-> gate, result |-> result, input |-> input, a |-> a]

Pending(op, gate, input, a) ==
    [pc |-> "pending", op |-> op, gate |-> gate, result |-> "", input |-> input, a |-> a]

Failure == {"ValidationError", "NotFound", "Conflict", "InsufficientStock",
            "Unauthenticated", "Forbidden", "InvalidOperation", "StoreFailure",
            "SelfDeletion", "InvalidCredentials"}

-----------------------------------------------------------------------------
(* Access gate: the decorators *)

\* session['user'] as login stores it.
SessionOf(username) ==
    [username |-> username, role |-> users[username].role, name |-> users[username].name]

LoggedInSessionOnly(c) == session[c] # NoSession

\* login_required: the session carries a user and that username is in the
\* user table.
LoggedIn(c) == session[c] # NoSession /\ session[c].username \in DOMAIN users

\* The session after login_required ran: popped when the user is gone.
SessionAfterGate(c) ==
    IF session[c] # NoSession /\ session[c].username \notin DOMAIN users
    THEN [session EXCEPT ![c] = NoSession]
    ELSE session

GateNoRole(c, allowed_roles) ==
    IF ~LoggedIn(c) THEN "Unauthenticated" ELSE "Admitted"

\* role_required(allowed_roles), under login_required.
Gate(c, allowed_roles) ==
    IF ~LoggedIn(c) THEN "Unauthenticated"
    ELSE IF session[c].role \notin allowed_roles THEN "Forbidden"
    ELSE "Admitted"

\* The route's decorator arguments.
RouteRoles(op) ==
    CASE op = "dashboard_summary"  -> {"admin", "manajer"}
      [] op = "get_inventory"      -> {"admin", "manajer", "operator"}
      [] op = "add_inventory_item" -> {"admin", "operator"}
      [] op = "get_inventory_item" -> {"admin", "manajer", "operator"}
      [] op = "update_inventory_item" -> {"admin"}
      [] op = "delete_inventory_item" -> {"admin"}
      [] op = "get_users"          -> {"admin"}
      [] op = "add_user"           -> {"admin"}
      [] op = "update_user"        -> {"admin"}
      [] op = "delete_user"        -> {"admin"}
      [] op = "get_transactions"   -> {"admin", "manajer", "operator"}
      [] op = "add_incoming_transaction" -> {"admin", "operator"}
      [] op = "add_outgoing_transaction" -> {"admin", "operator"}

\* The message a decorator flashes when it stops a request.
Flash(c, g) ==
    IF g = "Forbidden" THEN "role not allowed"
    ELSE IF session[c] = NoSession THEN "login first"
    ELSE "session invalid"

\* A request stopped by a decorator: nothing but the session is touched.
Rejected(c, op, g, input) ==
    /\ session' = SessionAfterGate(c)
    /\ bound' = IF session'[c] = NoSession THEN [bound EXCEPT ![c] = 0] ELSE bound
    /\ req' = [req EXCEPT ![c] = Done(op, g, g, input, [flash |-> Flash(c, g)])]
    /\ UNCHANGED <<store, clock, hist>>

\* A handler, entered, that answers without a commit.
Respond(c, op, result, input, a) ==
    /\ req' = [req EXCEPT ![c] = Done(op, "Admitted", result, input, a)]
    /\ UNCHANGED <<store, session, clock, hist, bound>>

\* A handler that reached db.session.commit().
Suspend(c, op, input, a) ==
    /\ req' = [req EXCEPT ![c] = Pending(op, "Admitted", input, a)]
    /\ UNCHANGED <<store, session, clock, hist, bound>>

-----------------------------------------------------------------------------
(* The store's commit *)

\* What can go wrong in the store itself during db.session.commit(): nothing,
\* or an error raised by the UPDATE, by the INSERT, or by the COMMIT.
StoreFaults == {"none", "update", "insert", "commit"}

\* The value of a signed movement.
Signed(type, quantity) == IF type = "masuk" THEN quantity ELSE 0 - quantity

TxnRowFixedId(a, type) ==
    [id |-> 1, type |-> type, item_id |-> a.item_id,
     quantity |-> a.quantity, user_username |-> a.user,
     timestamp |-> a.timestamp]

\* The row db.session.add(new_transaction) inserts.
TxnRow(a, type) ==
    [id |-> nextId, type |-> type, item_id |-> a.item_id,
     quantity |-> a.quantity, user_username |-> a.user,
     timestamp |-> a.timestamp]

RecordOutcomeNoRollback(a, type, fault) ==
    IF a.item_id \notin DOMAIN items \/ fault = "update"
    THEN [ok |-> FALSE, items |-> items, txns |-> txns, nextId |-> nextId]
    ELSE IF a.user \notin DOMAIN users \/ fault \in {"insert", "commit"}
    THEN [ok |-> FALSE,
          items |-> [items EXCEPT ![a.item_id].quantity = a.new_quantity,
                                  ![a.item_id].last_update = clock],
          txns |-> txns, nextId |-> nextId + 1]
    ELSE [ok |-> TRUE,
          items |-> [items EXCEPT ![a.item_id].quantity = a.new_quantity,
                                  ![a.item_id].last_update = clock],
          txns |-> Append(txns, TxnRow(a, type)),
          nextId |-> nextId + 1]

\* Flush and commit of a record request: UPDATE inventory_item (the quantity
\* computed from the value read), INSERT transaction, COMMIT.  The UPDATE
\* raises when its row is gone, the INSERT when a foreign key has no parent;
\* the except-branch rolls the whole unit back (the AUTO_INCREMENT value an
\* executed INSERT took is not given back).
RecordOutcome(a, type, fault) ==
    IF a.item_id \notin DOMAIN items \/ fault = "update"
    THEN [ok |-> FALSE, items |-> items, txns |-> txns, nextId |-> nextId]
    ELSE IF a.user \notin DOMAIN users \/ fault \in {"insert", "commit"}
    THEN [ok |-> FALSE, items |-> items, txns |-> txns, nextId |-> nextId + 1]
    ELSE [ok |-> TRUE,
          items |-> [items EXCEPT ![a.item_id].quantity = a.new_quantity,
                                  ![a.item_id].last_update = clock],
          txns |-> Append(txns, TxnRow(a, type)),
          nextId |-> nextId + 1]

\* db.session.commit() of a record request and its except-branch; the answer
\* carries new_transaction.id.
RecordCommit(c, op, type) ==
    /\ req[c].pc = "pending"
    /\ req[c].op = op
    /\ \E fault \in StoreFaults :
         LET a == req[c].a
             o == RecordOutcome(a, type, fault)
         IN /\ items' = o.items
            /\ txns' = o.txns
            /\ nextId' = o.nextId
            /\ req' = [req EXCEPT ![c] =
                         Done(op, req[c].gate, IF o.ok THEN "Created" ELSE "StoreFailure",
                              req[c].input,
                              [a EXCEPT !.id = IF o.ok THEN nextId ELSE 0])]
            /\ acked' = IF o.ok
                        THEN [acked EXCEPT ![a.item_id] = @ + Signed(type, a.quantity)]
                        ELSE acked
    /\ UNCHANGED <<users, nextUid, session, clock, seed, bound>>

\* Requests before their commit: each may still take an AUTO_INCREMENT value.
InFlight == {c \in Clients : req[c].pc = "pending"}

-----------------------------------------------------------------------------
(* Ledger handlers *)

IncrementedLost(stock, quantity) == quantity

\* item.quantity += quantity
Incremented(stock, quantity) == stock + quantity

\* POST /api/transactions/incoming, up to the commit.
api_add_incoming_transaction(c, item_id, quantity_str) ==
    LET op == "add_incoming_transaction"
        g == Gate(c, RouteRoles(op))
        input == [item_id |-> item_id, quantity |-> quantity_str]
    IN
    /\ req[c].pc # "pending"
    /\ nextId + Cardinality(InFlight) <= MaxTxn
    /\ IF g # "Admitted" THEN Rejected(c, op, g, input)
       ELSE IF item_id = <<>> \/ ~Truthy(quantity_str)
       THEN Respond(c, op, "ValidationError", input, <<>>)
       ELSE IF IntRaises(quantity_str) \/ quantity_str.val <= 0
       THEN Respond(c, op, "ValidationError", input, <<>>)
       ELSE IF item_id \notin DOMAIN items
       THEN Respond(c, op, "NotFound", input, <<>>)
       ELSE IF session[c].username = ""
       THEN Respond(c, op, "Unauthenticated", input, <<>>)
       ELSE Suspend(c, op, input,
              [item_id |-> item_id, quantity |-> quantity_str.val,
               read_quantity |-> items[item_id].quantity,
               new_quantity |-> Incremented(items[item_id].quantity, quantity_str.val),
               user |-> session[c].username, timestamp |-> clock,
               snapshot |-> nextId, id |-> 0])

\* db.session.commit() of POST /api/transactions/incoming and its except-branch.
commit_incoming_transaction(c) ==
    RecordCommit(c, "add_incoming_transaction", "masuk")

StockShortOffByOne(stock, quantity) == stock + 1 < quantity

\* The stock check of the outgoing handler.
StockShort(stock, quantity) == stock < quantity

\* item.quantity -= quantity
Decremented(stock, quantity) == stock - quantity

\* POST /api/transactions/outgoing, up to the commit.
api_add_outgoing_transaction(c, item_id, quantity_str) ==
    LET op == "add_outgoing_transaction"
        g == Gate(c, RouteRoles(op))
        input == [item_id |-> item_id, quantity |-> quantity_str]
    IN
    /\ req[c].pc # "pending"
    /\ nextId + Cardinality(InFlight) <= MaxTxn
    /\ IF g # "Admitted" THEN Rejected(c, op, g, input)
       ELSE IF item_id = <<>> \/ ~Truthy(quantity_str)
       THEN Respond(c, op, "ValidationError", input, <<>>)
       ELSE IF IntRaises(quantity_str) \/ quantity_str.val <= 0
       THEN Respond(c, op, "ValidationError", input, <<>>)
       ELSE IF item_id \notin DOMAIN items
       THEN Respond(c, op, "NotFound", input, <<>>)
       ELSE IF StockShort(items[item_id].quantity, quantity_str.val)
       THEN Respond(c, op, "InsufficientStock", input,
              [read_quantity |-> items[item_id].quantity])
       ELSE IF session[c].username = ""
       THEN Respond(c, op, "Unauthenticated", input, <<>>)
       ELSE Suspend(c, op, input,
              [item_id |-> item_id, quantity |-> quantity_str.val,
               read_quantity |-> items[item_id].quantity,
               new_quantity |-> Decremented(items[item_id].quantity, quantity_str.val),
               user |-> session[c].username, timestamp |-> clock,
               snapshot |-> nextId, id |-> 0])

\* db.session.commit() of POST /api/transactions/outgoing and its except-branch.
commit_outgoing_transaction(c) ==
    RecordCommit(c, "add_outgoing_transaction", "keluar")

-----------------------------------------------------------------------------
(* Item handlers *)

NegativeBelowMinusOne(quantity) == quantity < 0 - 1

\* if quantity < 0: of the create and the update handler.
Negative(quantity) == quantity < 0

\* Without(f, k): the function f with key k removed.
Without(f, k) == [x \in DOMAIN f \ {k} |-> f[x]]

\* With(f, k, v): the function f with key k set to v.
With(f, k, v) == [x \in DOMAIN f \cup {k} |-> IF x = k THEN v ELSE f[x]]

\* POST /api/inventory, up to the commit.
api_add_inventory_item(c, item_id, name, category, quantity_str) ==
    LET op == "add_inventory_item"
        g == Gate(c, RouteRoles(op))
        input == [item_id |-> item_id, name |-> name, category |-> category,
                  quantity |-> quantity_str]
        id == Upper(Strip(item_id))
    IN
    /\ req[c].pc # "pending"
    /\ IF g # "Admitted" THEN Rejected(c, op, g, input)
       ELSE IF item_id = <<>> \/ name = <<>> \/ category = <<>> \/ ~Truthy(quantity_str)
       THEN Respond(c, op, "ValidationError", input, <<>>)
       ELSE IF id = <<>>
       THEN Respond(c, op, "ValidationError", input, <<>>)
       ELSE IF IntRaises(quantity_str) \/ Negative(quantity_str.val)
       THEN Respond(c, op, "ValidationError", input, <<>>)
       ELSE IF id \in DOMAIN items
       THEN Respond(c, op, "Conflict", input, <<>>)
       ELSE IF session[c].username = ""
       THEN Respond(c, op, "Unauthenticated", input, <<>>)
       ELSE Suspend(c, op, input,
              [item_id |-> id, name |-> Strip(name), quantity |-> quantity_str.val,
               category |-> Strip(category), added_by |-> session[c].username])

\* db.session.commit() of POST /api/inventory: INSERT inventory_item; a
\* duplicate primary key raises.
commit_add_inventory_item(c) ==
    /\ req[c].pc = "pending"
    /\ req[c].op = "add_inventory_item"
    /\ \E fault \in {"none", "insert"} :
         LET a == req[c].a
             ok == a.item_id \notin DOMAIN items /\ fault = "none"
         IN /\ items' = IF ok
                        THEN With(items, a.item_id,
                                  ItemRow(a.name, a.quantity, a.category, a.added_by, clock))
                        ELSE items
            /\ seed' = IF ok THEN With(seed, a.item_id, a.quantity) ELSE seed
            /\ acked' = IF ok THEN With(acked, a.item_id, 0) ELSE acked
            /\ req' = [req EXCEPT ![c] =
                         Done(req[c].op, req[c].gate, IF ok THEN "Created" ELSE "StoreFailure",
                              req[c].input, a)]
    /\ UNCHANGED <<users, nextUid, txns, nextId, session, clock, bound>>

\* The body of a PUT: the keys present and their values.
NoData == [keys |-> {}, name |-> <<>>, category |-> <<>>, quantity |-> QtyNone]

\* PUT /api/inventory/<item_id>, up to the commit.  The columns assigned on
\* the ORM object are kept in set; only those are written by the UPDATE.
api_update_inventory_item(c, item_id, data) ==
    LET op == "update_inventory_item"
        g == Gate(c, RouteRoles(op))
        input == [item_id |-> item_id, data |-> data]
        item == items[item_id]
        name == Strip(data.name)
        category == Strip(data.category)
        set1 == IF "name" \in data.keys /\ item.name # name THEN {"name"} ELSE {}
        set2 == IF "category" \in data.keys /\ item.category # category
                THEN set1 \cup {"category"} ELSE set1
        set3 == IF "quantity" \in data.keys /\ item.quantity # data.quantity.val
                THEN set2 \cup {"quantity"} ELSE set2
    IN
    /\ req[c].pc # "pending"
    /\ IF g # "Admitted" THEN Rejected(c, op, g, input)
       ELSE IF item_id \notin DOMAIN items
       THEN Respond(c, op, "NotFound", input, <<>>)
       ELSE IF "name" \in data.keys /\ name = <<>>
       THEN Respond(c, op, "ValidationError", input, [set |-> {}])
       ELSE IF "category" \in data.keys /\ category = <<>>
       THEN Respond(c, op, "ValidationError", input, [set |-> set1])
       ELSE IF "quantity" \in data.keys
               /\ (IntRaises(data.quantity) \/ Negative(data.quantity.val))
       THEN Respond(c, op, "ValidationError", input, [set |-> set2])
       ELSE IF set3 = {}
       THEN Respond(c, op, "OK", input, [set |-> {}])
       ELSE Suspend(c, op, input,
              [item_id |-> item_id, set |-> set3, name |-> name,
               category |-> category, quantity |-> data.quantity.val])

UpdatedRowResetsQuantity(row, a) ==
    [name |-> IF "name" \in a.set THEN a.name ELSE row.name,
     quantity |-> a.quantity,
     category |-> IF "category" \in a.set THEN a.category ELSE row.category,
     added_by |-> row.added_by,
     last_update |-> clock]

\* The row after the UPDATE of the assigned columns (last_update: onupdate).
UpdatedRow(row, a) ==
    [name |-> IF "name" \in a.set THEN a.name ELSE row.name,
     quantity |-> IF "quantity" \in a.set THEN a.quantity ELSE row.quantity,
     category |-> IF "category" \in a.set THEN a.category ELSE row.category,
     added_by |-> row.added_by,
     last_update |-> clock]

\* db.session.commit() of PUT /api/inventory/<item_id>: the UPDATE raises
\* when its row is gone.
commit_update_inventory_item(c) ==
    /\ req[c].pc = "pending"
    /\ req[c].op = "update_inventory_item"
    /\ \E fault \in {"none", "update"} :
         LET a == req[c].a
             ok == a.item_id \in DOMAIN items /\ fault = "none"
         IN /\ items' = IF ok
                        THEN [items EXCEPT ![a.item_id] = UpdatedRow(@, a)]
                        ELSE items
            /\ req' = [req EXCEPT ![c] =
                         Done(req[c].op, req[c].gate, IF ok THEN "OK" ELSE "StoreFailure",
                              req[c].input, a)]
    /\ UNCHANGED <<users, nextUid, txns, nextId, session, clock, hist, bound>>

TxnCountOfItemOutgoing(item_id) ==
    Cardinality({k \in 1..Len(txns) :
                   txns[k].item_id = item_id /\ txns[k].type = "keluar"})

\* Transaction.query.filter_by(item_id=item_id).count()
TxnCountOfItem(item_id) ==
    Cardinality({k \in 1..Len(txns) : txns[k].item_id = item_id})

\* DELETE /api/inventory/<item_id>, up to the commit.
api_delete_inventory_item(c, item_id) ==
    LET op == "delete_inventory_item"
        g == Gate(c, RouteRoles(op))
        input == [item_id |-> item_id]
    IN
    /\ req[c].pc # "pending"
    /\ IF g # "Admitted" THEN Rejected(c, op, g, input)
       ELSE IF item_id \notin DOMAIN items
       THEN Respond(c, op, "NotFound", input, <<>>)
       ELSE IF TxnCountOfItem(item_id) > 0
       THEN Respond(c, op, "Conflict", input, <<>>)
       ELSE Suspend(c, op, input, [item_id |-> item_id])

\* Foreign key of Transaction.item_id: some row references the item.
ItemReferenced(item_id) == \E k \in 1..Len(txns) : txns[k].item_id = item_id

\* db.session.commit() of DELETE /api/inventory/<item_id>: the DELETE raises
\* when a transaction row references the item (foreign key of
\* Transaction.item_id); a row already gone is not an error.
commit_delete_inventory_item(c) ==
    /\ req[c].pc = "pending"
    /\ req[c].op = "delete_inventory_item"
    /\ \E fault \in {"none", "delete"} :
         LET a == req[c].a
             ok == ~ItemReferenced(a.item_id) /\ fault = "none"
         IN /\ items' = IF ok THEN Without(items, a.item_id) ELSE items
            /\ seed' = IF ok THEN Without(seed, a.item_id) ELSE seed
            /\ acked' = IF ok THEN Without(acked, a.item_id) ELSE acked
            /\ req' = [req EXCEPT ![c] =
                         Done(req[c].op, req[c].gate, IF ok THEN "OK" ELSE "StoreFailure",
                              req[c].input, a)]
    /\ UNCHANGED <<users, nextUid, txns, nextId, session, clock, bound>>

-----------------------------------------------------------------------------
(* Sessions and users *)

\* A route without decorators answers.
Open(c, op, result, input) ==
    /\ req' = [req EXCEPT ![c] = Done(op, "Open", result, input, <<>>)]
    /\ UNCHANGED <<store, clock, hist>>

\* User.check_password
CheckPassword(row, password) == row.password_hash = <<"hash", password>>

\* POST /login
login(c, username, password) ==
    LET op == "login"
        input == [username |-> username, password |-> password]
    IN
    /\ req[c].pc # "pending"
    /\ IF session[c] # NoSession
       THEN Open(c, op, "Redirect", input) /\ UNCHANGED <<session, bound>>
       ELSE IF username = "" \/ password = ""
       THEN Open(c, op, "ValidationError", input) /\ UNCHANGED <<session, bound>>
       ELSE IF username \in DOMAIN users /\ CheckPassword(users[username], password)
       THEN /\ session' = [session EXCEPT ![c] = SessionOf(username)]
            /\ bound' = [bound EXCEPT ![c] = users[username].id]
            /\ Open(c, op, "OK", input)
       ELSE Open(c, op, "InvalidCredentials", input) /\ UNCHANGED <<session, bound>>

\* GET /logout
logout(c) ==
    /\ req[c].pc # "pending"
    /\ IF ~LoggedIn(c) THEN Rejected(c, "logout", "Unauthenticated", <<>>)
       ELSE /\ session' = [session EXCEPT ![c] = NoSession]
            /\ bound' = [bound EXCEPT ![c] = 0]
            /\ req' = [req EXCEPT ![c] = Done("logout", "Admitted", "OK", <<>>, <<>>)]
            /\ UNCHANGED <<store, clock, hist>>

\* INSERT of a user row: the unique username raises on a duplicate; the
\* AUTO_INCREMENT value of an executed INSERT is used up.
commit_insert_user(c, op) ==
    /\ req[c].pc = "pending"
    /\ req[c].op = op
    /\ \E fault \in {"none", "insert"} :
         LET a == req[c].a
             ok == a.username \notin DOMAIN users /\ fault = "none"
         IN /\ users' = IF ok
                        THEN With(users, a.username,
                                  UserRow(nextUid, a.password, a.role, a.name))
                        ELSE users
            /\ nextUid' = nextUid + 1
            /\ req' = [req EXCEPT ![c] =
                         Done(op, req[c].gate, IF ok THEN "Created" ELSE "StoreFailure",
                              req[c].input, a)]
    /\ UNCHANGED <<items, txns, nextId, session, clock, hist, bound>>

\* POST /register, up to the commit.
register(c, username, password, name) ==
    LET op == "register"
        input == [username |-> username, password |-> password, name |-> name]
    IN
    /\ req[c].pc # "pending"
    /\ nextUid + Cardinality(InFlight) <= MaxUid
    /\ IF username = "" \/ password = "" \/ name = <<>>
       THEN Open(c, op, "ValidationError", input) /\ UNCHANGED <<session, bound>>
       ELSE IF username \in DOMAIN users
       THEN Open(c, op, "Conflict", input) /\ UNCHANGED <<session, bound>>
       ELSE /\ req' = [req EXCEPT ![c] =
                         Pending(op, "Open", input,
                                 [username |-> username, password |-> password,
                                  role |-> "operator", name |-> name])]
            /\ UNCHANGED <<store, session, clock, hist, bound>>

\* db.session.commit() of POST /register and its except-branch.
commit_register(c) == commit_insert_user(c, "register")

\* POST /api/users, up to the commit.
api_add_user(c, username, password, name, role) ==
    LET op == "add_user"
        g == Gate(c, RouteRoles(op))
        input == [username |-> username, password |-> password, name |-> name,
                  role |-> role]
    IN
    /\ req[c].pc # "pending"
    /\ nextUid + Cardinality(InFlight) <= MaxUid
    /\ IF g # "Admitted" THEN Rejected(c, op, g, input)
       ELSE IF username = "" \/ password = "" \/ name = <<>> \/ role = ""
       THEN Respond(c, op, "ValidationError", input, <<>>)
       ELSE IF role \notin Roles
       THEN Respond(c, op, "ValidationError", input, <<>>)
       ELSE IF username \in DOMAIN users
       THEN Respond(c, op, "Conflict", input, <<>>)
       ELSE Suspend(c, op, input,
              [username |-> username, password |-> password, role |-> role,
               name |-> name])

\* db.session.commit() of POST /api/users and its except-branch.
commit_add_user(c) == commit_insert_user(c, "add_user")

\* The body of a PUT /api/users/<username>: the keys present and their values.
NoUserData == [keys |-> {}, name |-> <<>>, role |-> "", password |-> ""]

SelfDemotionToAdmin(username, current, stored_role, role) ==
    username = current /\ stored_role = "admin" /\ role = "admin"

\* The guard of the role update: the caller's own record, stored as admin,
\* would get another role.
SelfDemotion(username, current, stored_role, role) ==
    username = current /\ stored_role = "admin" /\ role # "admin"

\* PUT /api/users/<username>, up to the commit.  The columns assigned on the
\* ORM object are kept in set; only those are written by the UPDATE.
api_update_user(c, username, data) ==
    LET op == "update_user"
        g == Gate(c, RouteRoles(op))
        input == [username |-> username, data |-> data]
        user == users[username]
        name == Strip(data.name)
        set1 == IF "name" \in data.keys /\ user.name # name THEN {"name"} ELSE {}
        set2 == IF "role" \in data.keys /\ user.role # data.role
                THEN set1 \cup {"role"} ELSE set1
        set3 == IF "password" \in data.keys /\ data.password # ""
                THEN set2 \cup {"password"} ELSE set2
    IN
    /\ req[c].pc # "pending"
    /\ IF g # "Admitted" THEN Rejected(c, op, g, input)
       ELSE IF username \notin DOMAIN users
       THEN Respond(c, op, "NotFound", input, <<>>)
       ELSE IF "name" \in data.keys /\ name = <<>>
       THEN Respond(c, op, "ValidationError", input, [set |-> {}])
       ELSE IF "role" \in data.keys /\ data.role \notin Roles
       THEN Respond(c, op, "ValidationError", input, [set |-> set1])
       ELSE IF /\ "role" \in data.keys
               /\ SelfDemotion(username, session[c].username, user.role, data.role)
       THEN Respond(c, op, "InvalidOperation", input, [set |-> set1])
       ELSE IF set3 = {}
       THEN Respond(c, op, "OK", input, [set |-> {}])
       ELSE Suspend(c, op, input,
              [id |-> user.id, username |-> username, set |-> set3,
               name |-> name, role |-> data.role, password |-> data.password])

\* The row after the UPDATE of the assigned columns.
UpdatedUser(row, a) ==
    [id |-> row.id,
     password_hash |-> IF "password" \in a.set THEN <<"hash", a.password>>
                       ELSE row.password_hash,
     role |-> IF "role" \in a.set THEN a.role ELSE row.role,
     name |-> IF "name" \in a.set THEN a.name ELSE row.name]

\* The row with this primary key is still in the table.
UserRowExists(username, id) == username \in DOMAIN users /\ users[username].id = id

\* db.session.commit() of PUT /api/users/<username>: the UPDATE raises when
\* its row is gone.
commit_update_user(c) ==
    /\ req[c].pc = "pending"
    /\ req[c].op = "update_user"
    /\ \E fault \in {"none", "update"} :
         LET a == req[c].a
             ok == UserRowExists(a.username, a.id) /\ fault = "none"
         IN /\ users' = IF ok
                        THEN [users EXCEPT ![a.username] = UpdatedUser(@, a)]
                        ELSE users
            /\ req' = [req EXCEPT ![c] =
                         Done(req[c].op, req[c].gate, IF ok THEN "OK" ELSE "StoreFailure",
                              req[c].input, a)]
    /\ UNCHANGED <<nextUid, items, txns, nextId, session, clock, hist, bound>>

\* DELETE /api/users/<username>, up to the commit.
api_delete_user(c, username) ==
    LET op == "delete_user"
        g == Gate(c, RouteRoles(op))
        input == [username |-> username]
    IN
    /\ req[c].pc # "pending"
    /\ IF g # "Admitted" THEN Rejected(c, op, g, input)
       ELSE IF username \notin DOMAIN users
       THEN Respond(c, op, "NotFound", input, <<>>)
       ELSE IF username = session[c].username
       THEN Respond(c, op, "SelfDeletion", input, <<>>)
       ELSE Suspend(c, op, input, [id |-> users[username].id, username |-> username])

\* Foreign key of Transaction.user_username: some row references the user.
UserReferenced(username) ==
    \E k \in 1..Len(txns) : txns[k].user_username = username

\* The answer of the except-branch of the delete: 400 when the text of the
\* store's error holds "foreign key constraint", 500 otherwise.
DeleteUserError(text) == IF text = "foreign key constraint" THEN "Conflict" ELSE "StoreFailure"

\* db.session.commit() of DELETE /api/users/<username>: the flush raises when
\* a transaction row references the user (the text of that error is the
\* store's); a row already gone is not an error.
commit_delete_user(c) ==
    /\ req[c].pc = "pending"
    /\ req[c].op = "delete_user"
    /\ \E fault \in {"none", "delete"}, text \in {"foreign key constraint", "cannot be null"} :
         LET a == req[c].a
             raised == UserReferenced(a.username) \/ fault # "none"
             result == IF ~raised THEN "OK"
                       ELSE IF UserReferenced(a.username) THEN DeleteUserError(text)
                       ELSE "StoreFailure"
         IN /\ users' = IF ~raised /\ UserRowExists(a.username, a.id)
                        THEN Without(users, a.username)
                        ELSE users
            /\ req' = [req EXCEPT ![c] =
                         Done(req[c].op, req[c].gate, result, req[c].input, a)]
    /\ UNCHANGED <<nextUid, items, txns, nextId, session, clock, hist, bound>>

-----------------------------------------------------------------------------
(* Read-only handlers *)

\* A GET route under both decorators: answers from the store, writes nothing.
ReadOnly(c, op, input, result) ==
    LET g == Gate(c, RouteRoles(op)) IN
    /\ req[c].pc # "pending"
    /\ IF g # "Admitted" THEN Rejected(c, op, g, input)
       ELSE Respond(c, op, result, input, <<>>)

\* GET /api/dashboard/summary
api_dashboard_summary(c) == ReadOnly(c, "dashboard_summary", <<>>, "OK")

\* GET /api/inventory
api_get_inventory(c) == ReadOnly(c, "get_inventory", <<>>, "OK")

\* GET /api/inventory/<item_id>
api_get_inventory_item(c, item_id) ==
    ReadOnly(c, "get_inventory_item", [item_id |-> item_id],
             IF item_id \in DOMAIN items THEN "OK" ELSE "NotFound")

\* GET /api/users
api_get_users(c) == ReadOnly(c, "get_users", <<>>, "OK")

\* query.filter_by(type=transaction_type), applied for 'masuk' and 'keluar' only.
FilteredByType(transaction_type) ==
    IF transaction_type \in {"masuk", "keluar"}
    THEN SelectSeq(txns, LAMBDA row : row.type = transaction_type)
    ELSE txns

\* query.order_by(Transaction.timestamp.desc()).all(): the rows, each once,
\* in an order that descends in timestamp; the statement names no second
\* key, so the store returns rows of equal timestamp in any order.
OrderedByTimestampDesc(rows) ==
    {l \in [1..Len(rows) -> {rows[k] : k \in 1..Len(rows)}] :
       /\ \A j, k \in 1..Len(rows) : j # k => l[j] # l[k]
       /\ \A j, k \in 1..Len(rows) : j < k => l[j].timestamp >= l[k].timestamp}

\* GET /api/transactions?type=<transaction_type>
api_get_transactions(c, transaction_type) ==
    LET op == "get_transactions"
        g == Gate(c, RouteRoles(op))
        input == [type |-> transaction_type]
    IN
    /\ req[c].pc # "pending"
    /\ IF g # "Admitted" THEN Rejected(c, op, g, input)
       ELSE \E l \in OrderedByTimestampDesc(FilteredByType(transaction_type)) :
              Respond(c, op, "OK", input, [list |-> l])

\* Time passes: datetime.utcnow(), stored to the second, moves on.
Tick ==
    /\ clock < MaxClock
    /\ clock' = clock + 1
    /\ UNCHANGED <<store, session, req, hist, bound>>

-----------------------------------------------------------------------------
(* Specifications *)

ItemA == <<"A">>
ItemB == <<"B">>

AdminRow == UserRow(1, "adminpass", "admin", <<"A">>)

\* Quantities a record request is sent with.
RecordQty == {QtyInt(n) : n \in 1..MaxQty}

\* A running deployment: the default admin and an operator exist, one item
\* was created with some stock, and each client is logged in as who(c).
Running(who) ==
    /\ users = [u \in {"admin", "opr"} |->
                  IF u = "admin" THEN AdminRow ELSE UserRow(2, "pw", "operator", <<"b">>)]
    /\ nextUid = 3
    /\ \E q \in 0..MaxSeed :
         /\ items = [i \in {ItemA} |-> ItemRow(<<"n">>, q, <<"k">>, "admin", 0)]
         /\ seed = [i \in {ItemA} |-> q]
    /\ acked = [i \in {ItemA} |-> 0]
    /\ txns = <<>>
    /\ nextId = 1
    /\ session = [c \in Clients |-> SessionOf(who[c])]
    /\ bound = [c \in Clients |-> users[who[c]].id]
    /\ req = [c \in Clients |-> Idle]
    /\ clock = 0

\* The admin on one client, the operator on the other.
InitRecord == Running([c \in Clients |-> IF c = "c1" THEN "admin" ELSE "opr"])

\* The admin on both clients.
Init == Running([c \in Clients |-> "admin"])

\* Concurrent record requests on one item.
NextRecord ==
    \/ \E c \in Clients, q \in RecordQty : api_add_incoming_transaction(c, ItemA, q)
    \/ \E c \in Clients : commit_incoming_transaction(c)
    \/ \E c \in Clients, q \in RecordQty : api_add_outgoing_transaction(c, ItemA, q)
    \/ \E c \in Clients : commit_outgoing_transaction(c)

SpecRecord == InitRecord /\ [][NextRecord]_vars

\* Bodies of PUT /api/inventory/<item_id> that carry a quantity only.
QuantityData == {[NoData EXCEPT !.keys = {"quantity"}, !.quantity = q] :
                   q \in {QtyInt(0 - 1), QtyInt(0)}}

\* Initial quantities POST /api/inventory is sent with.
CreateQty == {QtyInt(0 - 1), QtyInt(1)}

\* Item requests and record requests of two clients on one item, interleaved.
Next ==
    \/ \E c \in Clients, q \in CreateQty :
         api_add_inventory_item(c, <<" ", "a">>, <<"n">>, <<"k">>, q)
    \/ \E c \in Clients : commit_add_inventory_item(c)
    \/ \E c \in Clients, d \in QuantityData : api_update_inventory_item(c, ItemA, d)
    \/ \E c \in Clients : commit_update_inventory_item(c)
    \/ \E c \in Clients : api_delete_inventory_item(c, ItemA)
    \/ \E c \in Clients : commit_delete_inventory_item(c)
    \/ \E c \in Clients, q \in RecordQty : api_add_incoming_transaction(c, ItemA, q)
    \/ \E c \in Clients : commit_incoming_transaction(c)
    \/ \E c \in Clients, q \in RecordQty : api_add_outgoing_transaction(c, ItemA, q)
    \/ \E c \in Clients : commit_outgoing_transaction(c)

Spec == Init /\ [][Next]_vars

NoneInFlight == InFlight = {}

\* What a record request is sent with, valid or not.
AnyQty == {QtyInt(n) : n \in 0..MaxQty} \cup {QtyBad}

\* Record requests executed one after another: a request starts only when no
\* other is before its commit.
NextSeq ==
    \/ /\ NoneInFlight
       /\ \E c \in Clients, i \in {ItemA, ItemB}, q \in AnyQty :
            api_add_incoming_transaction(c, i, q)
    \/ \E c \in Clients : commit_incoming_transaction(c)
    \/ /\ NoneInFlight
       /\ \E c \in Clients, i \in {ItemA, ItemB}, q \in AnyQty :
            api_add_outgoing_transaction(c, i, q)
    \/ \E c \in Clients : commit_outgoing_transaction(c)

SpecSeq == InitRecord /\ [][NextSeq]_vars

\* A deployment with one user of each role (the default admin and two users
\* the admin created), one item, and nobody logged in.
InitGate ==
    /\ users = [u \in {"admin", "man", "opr"} |->
                  CASE u = "admin" -> AdminRow
                    [] u = "man"   -> UserRow(2, "pw", "manajer", <<"m">>)
                    [] u = "opr"   -> UserRow(3, "pw", "operator", <<"b">>)]
    /\ nextUid = 4
    /\ items = [i \in {ItemA} |-> ItemRow(<<"n">>, 1, <<"k">>, "admin", 0)]
    /\ seed = [i \in {ItemA} |-> 1]
    /\ acked = [i \in {ItemA} |-> 0]
    /\ txns = <<>>
    /\ nextId = 1
    /\ session = [c \in Clients |-> NoSession]
    /\ bound = [c \in Clients |-> 0]
    /\ req = [c \in Clients |-> Idle]
    /\ clock = 0

NameData == [NoData EXCEPT !.keys = {"name"}, !.name = <<"n", "a">>]

RoleData(role) == [NoUserData EXCEPT !.keys = {"role"}, !.role = role]

\* Every route of the role matrix, requested by users of every role and by
\* a client without a session.  The second client only logs in and out and
\* reads, so that two sessions of different roles are open at once.
NextGate ==
    \/ \E c \in Clients, u \in {"admin", "man", "opr"} :
         login(c, u, IF u = "admin" THEN "adminpass" ELSE "pw")
    \/ \E c \in Clients : logout(c)
    \/ \E c \in Clients : api_dashboard_summary(c)
    \/ api_get_inventory("c1")
    \/ api_get_inventory_item("c1", ItemA)
    \/ api_get_users("c1")
    \/ api_get_transactions("c1", "")
    \/ api_add_inventory_item("c1", <<"b">>, <<"n">>, <<"k">>, QtyInt(1))
    \/ commit_add_inventory_item("c1")
    \/ api_update_inventory_item("c1", ItemA, NameData)
    \/ commit_update_inventory_item("c1")
    \/ api_delete_inventory_item("c1", ItemB)
    \/ commit_delete_inventory_item("c1")
    \/ /\ nextId <= MaxRef
       /\ api_add_incoming_transaction("c1", ItemA, QtyInt(1))
    \/ commit_incoming_transaction("c1")
    \/ /\ nextId <= MaxRef
       /\ api_add_outgoing_transaction("c1", ItemA, QtyInt(1))
    \/ commit_outgoing_transaction("c1")
    \/ api_add_user("c1", "bob", "pw", <<"b">>, "operator")
    \/ commit_add_user("c1")
    \/ api_update_user("c1", "bob", RoleData("manajer"))
    \/ commit_update_user("c1")
    \/ api_delete_user("c1", "bob")
    \/ commit_delete_user("c1")

SpecGate == InitGate /\ [][NextGate]_vars

\* Sessions, user management and the ledger.  The first client is the
\* admin's: it logs in and out and deletes users.  The second is the
\* operator's: it registers, logs in and out, reads, and records a movement.
NextUsers ==
    \/ login("c1", "admin", "adminpass")
    \/ \E p \in {"pw", "bad"} : login("c2", "opr", p)
    \/ \E c \in Clients : logout(c)
    \/ register("c2", "opr", "pw", <<"b">>)
    \/ commit_register("c2")
    \/ \E u \in {"admin", "opr"} : api_delete_user("c1", u)
    \/ commit_delete_user("c1")
    \/ /\ nextId <= MaxRef
       /\ api_add_incoming_transaction("c2", ItemA, QtyInt(1))
    \/ commit_incoming_transaction("c2")
    \/ api_get_inventory("c2")

SpecUsers == InitRecord /\ [][NextUsers]_vars

\* The bootstrap state: init_db created the tables and the default admin;
\* one item is in stock and nobody is logged in.
InitBoot ==
    /\ users = [u \in {"admin"} |-> AdminRow]
    /\ nextUid = 2
    /\ items = [i \in {ItemA} |-> ItemRow(<<"n">>, 1, <<"k">>, "admin", 0)]
    /\ seed = [i \in {ItemA} |-> 1]
    /\ acked = [i \in {ItemA} |-> 0]
    /\ txns = <<>>
    /\ nextId = 1
    /\ session = [c \in Clients |-> NoSession]
    /\ bound = [c \in Clients |-> 0]
    /\ req = [c \in Clients |-> Idle]
    /\ clock = 0

\* Bodies of PUT /api/users/<username>: a role, a name and a role, a name.
UserData ==
    {RoleData("operator"),
     [NoUserData EXCEPT !.keys = {"name", "role"}, !.name = <<"z">>, !.role = "operator"],
     [NoUserData EXCEPT !.keys = {"name"}, !.name = <<"z">>]}

\* Two clients that log in, register, and create, update and delete users.
NextAdmins ==
    \/ \E c \in Clients : login(c, "admin", "adminpass")
    \/ login("c2", "bob", "pw")
    \/ register("c2", "bob", "pw", <<"b">>)
    \/ commit_register("c2")
    \/ api_add_user("c1", "bob", "pw", <<"b">>, "admin")
    \/ commit_add_user("c1")
    \/ \E c \in Clients, u \in {"admin", "bob"}, d \in UserData : api_update_user(c, u, d)
    \/ \E c \in Clients : commit_update_user(c)
    \/ \E c \in Clients, u \in {"admin", "bob"} : api_delete_user(c, u)
    \/ \E c \in Clients : commit_delete_user(c)

SpecAdmins == InitBoot /\ [][NextAdmins]_vars

\* Item ids as clients send them: blanks around, lower and upper case, blank.
RawIds == {<<" ", "b">>, <<"b", " ">>, <<"B">>, <<"a">>, <<" ">>}

\* Initial quantities of POST /api/inventory: numbers, a numeric string, text.
CreateAny == {QtyInt(0 - 1), QtyInt(0), QtyStr(0), QtyInt(1), QtyBad}

\* Bodies of PUT /api/inventory/<item_id>: a new name with a bad quantity, a
\* new name with a blank category, a blank name, the stored name, a new name,
\* a new quantity.
ItemData ==
    {[NoData EXCEPT !.keys = {"name", "quantity"}, !.name = <<"m">>, !.quantity = QtyInt(0 - 1)],
     [NoData EXCEPT !.keys = {"name", "quantity"}, !.name = <<"m">>, !.quantity = QtyBad],
     [NoData EXCEPT !.keys = {"name", "category"}, !.name = <<"m">>, !.category = <<" ">>],
     [NoData EXCEPT !.keys = {"name"}, !.name = <<" ">>],
     [NoData EXCEPT !.keys = {"name"}, !.name = <<"n">>],
     [NoData EXCEPT !.keys = {"name"}, !.name = <<"m", " ">>],
     [NoData EXCEPT !.keys = {"quantity"}, !.quantity = QtyStr(1)]}

\* Two admins that create, read and update items.
NextItems ==
    \/ \E c \in Clients, raw \in RawIds, q \in CreateAny :
         api_add_inventory_item(c, raw, <<"n">>, <<"k">>, q)
    \/ \E c \in Clients : commit_add_inventory_item(c)
    \/ \E c \in Clients, i \in {ItemA, ItemB, <<"b">>} : api_get_inventory_item(c, i)
    \/ \E c \in Clients, d \in ItemData : api_update_inventory_item(c, ItemA, d)
    \/ \E c \in Clients : commit_update_inventory_item(c)

SpecItems == Init /\ [][NextItems]_vars

\* The ledger over time: the operator records movements, valid or not, the
\* admin lists the transactions and tries to delete the item and the
\* operator.
NextLedger ==
    \/ Tick
    \/ \E q \in AnyQty : api_add_incoming_transaction("c2", ItemA, q)
    \/ commit_incoming_transaction("c2")
    \/ \E q \in AnyQty : api_add_outgoing_transaction("c2", ItemA, q)
    \/ commit_outgoing_transaction("c2")
    \/ \E t \in {"", "masuk", "keluar"} : api_get_transactions("c1", t)
    \/ api_delete_inventory_item("c1", ItemA)
    \/ commit_delete_inventory_item("c1")
    \/ api_delete_user("c1", "opr")
    \/ commit_delete_user("c1")

SpecLedger == InitRecord /\ [][NextLedger]_vars

-----------------------------------------------------------------------------
(* Claims *)

RecordOps == {"add_incoming_transaction", "add_outgoing_transaction"}

\* The signed sum of the recorded transactions of an item.
RECURSIVE SignedSum(_, _)
SignedSum(rows, item_id) ==
    IF rows = <<>> THEN 0
    ELSE (IF Head(rows).item_id = item_id
          THEN Signed(Head(rows).type, Head(rows).quantity) ELSE 0)
         + SignedSum(Tail(rows), item_id)

\* C1: in every reachable state, whatever the interleaving of create, update,
\* incoming and outgoing requests, every inventory item has quantity >= 0.
C1_QuantityNonNegative == \A i \in DOMAIN items : items[i].quantity >= 0

\* Two outgoing requests that both read the same stock, together ask for more
\* than it, and were both answered 201.
BothOutgoingCreated ==
    \E c1, c2 \in Clients :
       /\ c1 # c2
       /\ req[c1].pc = "done" /\ req[c2].pc = "done"
       /\ req[c1].op = "add_outgoing_transaction" /\ req[c1].result = "Created"
       /\ req[c2].op = "add_outgoing_transaction" /\ req[c2].result = "Created"
       /\ req[c1].a.item_id = req[c2].a.item_id
       /\ req[c1].a.read_quantity = req[c2].a.read_quantity
       /\ req[c1].a.quantity + req[c2].a.quantity > req[c1].a.read_quantity

\* C1 witness: the race happened and the item is still there.
C1_Witness ==
    /\ BothOutgoingCreated
    /\ ItemA \in DOMAIN items
    /\ Len(txns) >= 2

\* C2: when record requests on an item run one after another, the item's
\* quantity is its seed plus the quantities of the incoming requests answered
\* 201 minus those of the outgoing requests answered 201, and that is the seed
\* plus the signed sum of the item's recorded transactions.
C2_SequentialReplay ==
    \A i \in DOMAIN items :
       /\ items[i].quantity = seed[i] + acked[i]
       /\ items[i].quantity = seed[i] + SignedSum(txns, i)

\* C2 witness: an incoming and an outgoing movement were recorded, a request
\* failed, and the stock moved.
C2_Witness ==
    /\ NoneInFlight
    /\ \E k1, k2 \in 1..Len(txns) : txns[k1].type = "masuk" /\ txns[k2].type = "keluar"
    /\ \E c \in Clients : req[c].pc = "done" /\ req[c].result \in Failure
    /\ items[ItemA].quantity # seed[ItemA]

\* Two outgoing requests on one item, both answered 201, that read the same
\* stock and together took more than it, the later one having read before the
\* earlier one committed.
ConcurrentBothCreated ==
    \E c1, c2 \in Clients :
       /\ req[c1].pc = "done" /\ req[c2].pc = "done"
       /\ req[c1].op = "add_outgoing_transaction" /\ req[c1].result = "Created"
       /\ req[c2].op = "add_outgoing_transaction" /\ req[c2].result = "Created"
       /\ req[c1].a.item_id = req[c2].a.item_id
       /\ req[c1].a.id < req[c2].a.id
       /\ req[c2].a.snapshot <= req[c1].a.id
       /\ req[c1].a.read_quantity = req[c2].a.read_quantity
       /\ req[c1].a.quantity + req[c2].a.quantity > req[c1].a.read_quantity

\* C3: of two concurrent outgoing requests on one item whose quantities add up
\* to more than the stock, at most one is answered 201.
C3_AtMostOneSucceeds == ~ConcurrentBothCreated

\* C4: no quantity update of concurrent record requests is lost: once every
\* request has finished, the quantity is the seed plus the signed sum of the
\* recorded transactions.
C4_NoLostUpdate ==
    NoneInFlight =>
       \A i \in DOMAIN items : items[i].quantity = seed[i] + SignedSum(txns, i)

\* C5: the commit of a record request either adds its transaction row and
\* writes its quantity, or (store failure, rollback) does neither.
C5_RecordAtomic ==
    [][\A c \in Clients :
         (req[c].pc = "pending" /\ req[c].op \in RecordOps /\ req'[c].pc = "done")
         => LET a == req[c].a
                n == Len(txns')
            IN \/ /\ req'[c].result = "Created"
                  /\ n = Len(txns) + 1
                  /\ SubSeq(txns', 1, n - 1) = txns
                  /\ txns'[n].item_id = a.item_id
                  /\ txns'[n].quantity = a.quantity
                  /\ items'[a.item_id].quantity = a.new_quantity
               \/ /\ req'[c].result = "StoreFailure"
                  /\ txns' = txns
                  /\ items' = items]_vars

\* C5 witness: one record request was rolled back, another was committed.
C5_Witness ==
    \E c1, c2 \in Clients :
       /\ req[c1].pc = "done" /\ req[c1].op \in RecordOps
       /\ req[c1].result = "StoreFailure"
       /\ req[c2].pc = "done" /\ req[c2].op \in RecordOps
       /\ req[c2].result = "Created"
       /\ Len(txns) >= 1

\* C6: an admitted outgoing request for more than the stock of its item is
\* answered InsufficientStock and leaves the quantity and the transactions as
\* they were.
C6_InsufficientStockRejected ==
    [][\A c \in Clients :
         (/\ req[c].pc # "pending"
          /\ req'[c] # req[c]
          /\ req'[c].op = "add_outgoing_transaction"
          /\ Gate(c, {"admin", "operator"}) = "Admitted"
          /\ req'[c].input.item_id \in DOMAIN items
          /\ req'[c].input.quantity.kind \in {"int", "str"}
          /\ req'[c].input.quantity.val > items[req'[c].input.item_id].quantity)
         => /\ req'[c].pc = "done"
            /\ req'[c].result = "InsufficientStock"
            /\ items' = items
            /\ txns' = txns]_vars

\* C6 witness: an outgoing request was answered InsufficientStock while the
\* ledger already held a movement.
C6_Witness ==
    \E c \in Clients :
       /\ req[c].pc = "done"
       /\ req[c].op = "add_outgoing_transaction"
       /\ req[c].result = "InsufficientStock"
       /\ req[c].input.quantity.val > req[c].a.read_quantity
       /\ Len(txns) >= 1

\* The role matrix of the specification (manager is stored as "manajer").
MatrixRoles(op) ==
    CASE op \in {"dashboard_summary"} -> {"admin", "manajer"}
      [] op \in {"get_inventory", "get_inventory_item"} -> {"admin", "manajer", "operator"}
      [] op \in {"add_inventory_item"} -> {"admin", "operator"}
      [] op \in {"update_inventory_item", "delete_inventory_item"} -> {"admin"}
      [] op \in RecordOps -> {"admin", "operator"}
      [] op \in {"get_transactions"} -> {"admin", "manajer", "operator"}
      [] op \in {"get_users", "add_user", "update_user", "delete_user"} -> {"admin"}

MatrixOps ==
    {"dashboard_summary", "get_inventory", "get_inventory_item",
     "add_inventory_item", "update_inventory_item", "delete_inventory_item",
     "get_transactions", "get_users", "add_user", "update_user", "delete_user"}
    \cup RecordOps

\* Client c starts a request in this step (the decorators and the body up to
\* the commit run).
Starts(c) == req[c].pc # "pending" /\ req'[c] # req[c]

\* Client c's request commits or rolls back in this step.
Commits(c) == req[c].pc = "pending" /\ req'[c].pc = "done"

\* C7: for every operation of the role matrix, a request of a logged-in user
\* enters the handler iff the session's role is allowed for the operation and
\* is Forbidden otherwise; a request without a session is Unauthenticated; a
\* rejected request changes no user, item or transaction.
C7_RoleMatrix ==
    [][\A c \in Clients :
         (Starts(c) /\ req'[c].op \in MatrixOps)
         => LET r == req'[c] IN
            /\ session[c] = NoSession => r.gate = "Unauthenticated"
            /\ LoggedIn(c) =>
                 r.gate = IF session[c].role \in MatrixRoles(r.op)
                          THEN "Admitted" ELSE "Forbidden"
            /\ r.gate # "Admitted" =>
                 /\ r.pc = "done"
                 /\ r.result = r.gate
                 /\ users' = users /\ items' = items /\ txns' = txns]_vars

GatedOps == MatrixOps \cup {"logout"}

\* C7 witness: an operator was refused the dashboard summary while a client
\* without a session was refused too.
C7_Witness ==
    \E c1, c2 \in Clients :
       /\ req[c1].op = "dashboard_summary" /\ req[c1].gate = "Forbidden"
       /\ session[c1] # NoSession /\ session[c1].role = "operator"
       /\ req[c2].op \in MatrixOps /\ req[c2].gate = "Unauthenticated"
       /\ session[c2] = NoSession

\* C8 as claimed: once the user record a session was made from has been
\* deleted, every later read or mutation requested with that session is
\* Unauthenticated.
C8_DeletedNeverAdmitted ==
    [][\A c \in Clients :
         (/\ Starts(c) /\ req'[c].op \in MatrixOps
          /\ session[c] # NoSession
          /\ ~UserRowExists(session[c].username, bound[c]))
         => req'[c].gate = "Unauthenticated"]_vars

\* C8: a gated request whose session names a username that is in no user
\* record is Unauthenticated, clears the session and changes nothing; the
\* session is re-validated on every request.
C8_GateRevalidates ==
    [][\A c \in Clients :
         (/\ Starts(c) /\ req'[c].op \in GatedOps
          /\ session[c] # NoSession
          /\ session[c].username \notin DOMAIN users)
         => /\ req'[c].gate = "Unauthenticated"
            /\ req'[c].pc = "done"
            /\ session'[c] = NoSession
            /\ users' = users /\ items' = items /\ txns' = txns]_vars

\* C8 witness: the operator was deleted and the operator's session was then
\* refused as invalid.
C8_Witness ==
    /\ "opr" \notin DOMAIN users
    /\ req["c2"].pc = "done"
    /\ req["c2"].gate = "Unauthenticated"
    /\ req["c2"].a = [flash |-> "session invalid"]
    /\ session["c2"] = NoSession

\* Every transaction's item_id is the id of an item.
ItemsOfTxnsExist == \A k \in 1..Len(txns) : txns[k].item_id \in DOMAIN items

\* What a delete of an item must do: NotFound for an absent id; refused,
\* with the answer given for the handler's own check and for the store's
\* check at the commit, when a transaction references the item.
ItemDeleteSteps(atCheck, atCommit) ==
    \A c \in Clients :
       /\ (Starts(c) /\ req'[c].op = "delete_inventory_item"
                     /\ req'[c].gate = "Admitted")
          => LET r == req'[c] IN
             /\ r.input.item_id \notin DOMAIN items =>
                  r.pc = "done" /\ r.result = "NotFound"
             /\ ItemReferenced(r.input.item_id) =>
                  /\ r.pc = "done" /\ r.result = atCheck
                  /\ items' = items /\ txns' = txns
       /\ (Commits(c) /\ req[c].op = "delete_inventory_item"
                      /\ ItemReferenced(req[c].a.item_id))
          => /\ req'[c].result = atCommit
             /\ items' = items /\ txns' = txns

\* C9 as claimed: a delete of an item that a transaction references always
\* fails with Conflict, also when the transaction is recorded concurrently.
C9_AlwaysConflict == [][ItemDeleteSteps("Conflict", "Conflict")]_vars

\* C9: a delete of an item that a transaction references fails and leaves the
\* item and the transactions in place: with Conflict when the handler's count
\* sees the transaction, with StoreFailure (rolled back) when the transaction
\* was committed between the count and the delete's commit; every
\* transaction's item_id is the id of an existing item; a delete of an absent
\* id fails with NotFound.
C9_ItemDeleteGuarded ==
    /\ []ItemsOfTxnsExist
    /\ [][ItemDeleteSteps("Conflict", "StoreFailure")]_vars

\* C9 witness: a delete lost the race against a record request and was
\* rolled back.
C9_Witness ==
    \E c1, c2 \in Clients :
       /\ req[c1].pc = "done" /\ req[c1].op = "delete_inventory_item"
       /\ req[c1].result = "StoreFailure"
       /\ req[c2].pc = "done" /\ req[c2].op \in RecordOps
       /\ req[c2].result = "Created"
       /\ ItemReferenced(ItemA) /\ ItemA \in DOMAIN items

\* Every transaction's user_username is the username of a user.
UsersOfTxnsExist == \A k \in 1..Len(txns) : txns[k].user_username \in DOMAIN users

\* C10: a delete of the caller's own user fails with SelfDeletion, a delete of
\* a user that a transaction references fails with Conflict, both leave the
\* user and the transactions as they were; every transaction's user_username
\* is the username of an existing user.
C10_UserDeleteGuarded ==
    /\ []UsersOfTxnsExist
    /\ [][\A c \in Clients :
            /\ (Starts(c) /\ req'[c].op = "delete_user" /\ req'[c].gate = "Admitted"
                          /\ req'[c].input.username = session[c].username)
               => /\ req'[c].pc = "done" /\ req'[c].result = "SelfDeletion"
                  /\ users' = users /\ txns' = txns
            /\ (Commits(c) /\ req[c].op = "delete_user"
                           /\ UserReferenced(req[c].a.username))
               => /\ req'[c].result = "Conflict"
                  /\ users' = users /\ txns' = txns]_vars

\* C11: from the bootstrap state, after any interleaving of login, register,
\* create_user, update_user and delete_user requests, at least one user with
\* role admin exists.
C11_AdminExists == \E u \in DOMAIN users : users[u].role = "admin"

\* C16: an admin's update_user on the admin's own record that carries a role
\* other than admin is answered InvalidOperation and leaves the stored role,
\* name and password hash as they were, also when the request carries a
\* valid new name.
C16_SelfDemotionRefused ==
    [][\A c \in Clients :
         (/\ Starts(c) /\ req'[c].op = "update_user" /\ req'[c].gate = "Admitted"
          /\ req'[c].input.username = session[c].username
          /\ users[session[c].username].role = "admin"
          /\ "role" \in req'[c].input.data.keys
          /\ req'[c].input.data.role \in Roles \ {"admin"}
          /\ ("name" \in req'[c].input.data.keys
                => Strip(req'[c].input.data.name) # <<>>))
         => /\ req'[c].pc = "done"
            /\ req'[c].result = "InvalidOperation"
            /\ users' = users]_vars

\* C16 witness: the admin asked for a new name and the role operator on the
\* admin's own record; the handler had assigned the name when it refused, and
\* the stored name is the old one.
C16_Witness ==
    \E c \in Clients :
       /\ req[c].pc = "done" /\ req[c].op = "update_user"
       /\ req[c].result = "InvalidOperation"
       /\ req[c].input.username = "admin"
       /\ req[c].a.set = {"name"}
       /\ users["admin"].name # req[c].input.data.name
       /\ users["admin"].role = "admin"

\* C19: every request admitted to an operation of the role matrix is made by
\* a user whose stored role is allowed for the operation.
C19_StoredRoleAuthorizes ==
    [][\A c \in Clients :
         (Starts(c) /\ req'[c].op \in MatrixOps /\ req'[c].gate = "Admitted")
         => users[session[c].username].role \in MatrixRoles(req'[c].op)]_vars

\* A create request whose fields are all non-blank.
FieldsGiven(input) ==
    /\ Strip(input.item_id) # <<>>
    /\ Strip(input.name) # <<>>
    /\ Strip(input.category) # <<>>

\* C12: a create_item with non-blank id, name and category, an id not in the
\* store and an integer quantity q is, for q >= 0 (0 included), accepted and
\* stores the item with quantity q, and for q < 0 answered ValidationError
\* without creating an item.
C12_CreateSeedsQuantity ==
    [][\A c \in Clients :
         /\ (/\ Starts(c) /\ req'[c].op = "add_inventory_item"
              /\ req'[c].gate = "Admitted"
              /\ FieldsGiven(req'[c].input)
              /\ req'[c].input.quantity.kind = "int"
              /\ Upper(Strip(req'[c].input.item_id)) \notin DOMAIN items)
            => IF req'[c].input.quantity.val >= 0
               THEN /\ req'[c].pc = "pending"
                    /\ req'[c].a.quantity = req'[c].input.quantity.val
               ELSE /\ req'[c].pc = "done"
                    /\ req'[c].result = "ValidationError"
                    /\ items' = items
         /\ (/\ Commits(c) /\ req[c].op = "add_inventory_item"
              /\ req'[c].result = "Created")
            => /\ req[c].a.item_id \in DOMAIN items'
               /\ items'[req[c].a.item_id].quantity = req[c].a.quantity]_vars

MaxLen == 3

IdChars == {" ", "a", "b", "B"}

\* Every text of at most MaxLen characters.
AllIds == UNION {[1..n -> IdChars] : n \in 0..MaxLen}

\* An id without blanks around it and without lower-case letters.
Normal(s) ==
    /\ s # <<>> => Head(s) # " " /\ s[Len(s)] # " "
    /\ \A k \in 1..Len(s) : s[k] \notin {"a", "b"}

\* Normalizing twice is normalizing once, and gives a normal id.
NormalizeIdempotent ==
    \A s \in AllIds :
       /\ Upper(Strip(Upper(Strip(s)))) = Upper(Strip(s))
       /\ Normal(Upper(Strip(s)))

\* A create request that passes the validation of its fields.
CreateValid(input) ==
    /\ FieldsGiven(input)
    /\ Truthy(input.quantity)
    /\ input.quantity.kind \in {"int", "str"}
    /\ input.quantity.val >= 0

\* C13: normalizing an item id (trim, then upper case) is idempotent; a
\* created item is stored under the normalized id and get_item finds it
\* there; a create whose raw id normalizes to the id of an existing item is
\* answered Conflict and leaves the items as they were.
C13_NormalizedIds ==
    /\ [](NormalizeIdempotent /\ \A i \in DOMAIN items : Normal(i))
    /\ [][\A c \in Clients :
            /\ (/\ Commits(c) /\ req[c].op = "add_inventory_item"
                 /\ req'[c].result = "Created")
               => /\ Normal(req[c].a.item_id)
                  /\ req[c].a.item_id = Upper(Strip(req[c].input.item_id))
                  /\ req[c].a.item_id \in DOMAIN items'
            /\ (/\ Starts(c) /\ req'[c].op = "get_inventory_item"
                 /\ req'[c].gate = "Admitted")
               => (req'[c].result = "OK" <=> req'[c].input.item_id \in DOMAIN items)
            /\ (/\ Starts(c) /\ req'[c].op = "add_inventory_item"
                 /\ req'[c].gate = "Admitted"
                 /\ CreateValid(req'[c].input)
                 /\ Upper(Strip(req'[c].input.item_id)) \in DOMAIN items)
               => /\ req'[c].pc = "done"
                  /\ req'[c].result = "Conflict"
                  /\ items' = items]_vars

\* C13 witness: an item created from a raw id is stored under the upper-case
\* id, a get_item with that id found it, and a create with another raw id
\* that normalizes to it was answered Conflict.
C13_Witness ==
    \E c1, c2 \in Clients :
       /\ ItemB \in DOMAIN items
       /\ req[c1].pc = "done" /\ req[c1].op = "add_inventory_item"
       /\ req[c1].result = "Conflict"
       /\ req[c1].input.item_id # ItemB
       /\ Upper(Strip(req[c1].input.item_id)) = ItemB
       /\ req[c2].pc = "done" /\ req[c2].op = "get_inventory_item"
       /\ req[c2].result = "OK" /\ req[c2].input.item_id = ItemB

\* The body of an update carries a blank name, a blank category, or a
\* quantity that is negative or no integer.
BadItemData(d) ==
    \/ "name" \in d.keys /\ Strip(d.name) = <<>>
    \/ "category" \in d.keys /\ Strip(d.category) = <<>>
    \/ "quantity" \in d.keys
          /\ (d.quantity.kind \in {"bad", "none"} \/ d.quantity.val < 0)

\* The body of an update carries no value that differs from the stored one.
SameItemData(d, row) ==
    /\ "name" \in d.keys => Strip(d.name) = row.name
    /\ "category" \in d.keys => Strip(d.category) = row.category
    /\ "quantity" \in d.keys => d.quantity.val = row.quantity

\* C18: an update_item rejected for a blank name, a blank category or a
\* negative or non-integer quantity leaves every stored item as it was, also
\* when the handler had applied an earlier field of the request; an update
\* that changes no field writes nothing.
C18_UpdateAllOrNothing ==
    [][\A c \in Clients :
         (/\ Starts(c) /\ req'[c].op = "update_inventory_item"
          /\ req'[c].gate = "Admitted"
          /\ req'[c].input.item_id \in DOMAIN items)
         => LET d == req'[c].input.data
                row == items[req'[c].input.item_id]
            IN /\ BadItemData(d) =>
                    /\ req'[c].pc = "done"
                    /\ req'[c].result = "ValidationError"
                    /\ items' = items
               /\ (~BadItemData(d) /\ SameItemData(d, row)) =>
                    /\ req'[c].pc = "done"
                    /\ req'[c].result = "OK"
                    /\ items' = items
               /\ req'[c].result = "ValidationError" => BadItemData(d)]_vars

\* C18 witness: an update with a valid new name and a bad quantity was
\* rejected after the handler had assigned the name, and the stored name is
\* the old one.
C18_Witness ==
    \E c \in Clients :
       /\ req[c].pc = "done" /\ req[c].op = "update_inventory_item"
       /\ req[c].result = "ValidationError"
       /\ req[c].a.set = {"name"}
       /\ "quantity" \in req[c].input.data.keys
       /\ items[ItemA].name # Strip(req[c].input.data.name)

\* Every recorded transaction has a positive quantity and a type, and the
\* ids increase in the order of insertion.
LedgerWellFormed ==
    /\ \A k \in 1..Len(txns) :
          txns[k].quantity > 0 /\ txns[k].type \in {"masuk", "keluar"}
    /\ \A j, k \in 1..Len(txns) : j < k => txns[j].id < txns[k].id

TiesByInsertion(l) ==
    LET ties == {p \in (1..Len(l)) \X (1..Len(l)) :
                   p[1] < p[2] /\ l[p[1]].timestamp = l[p[2]].timestamp}
    IN \/ \A p \in ties : l[p[1]].id < l[p[2]].id
       \/ \A p \in ties : l[p[1]].id > l[p[2]].id

\* C15: list_transactions returns exactly the recorded transactions (of the
\* given type when the filter is incoming or outgoing), ordered by timestamp
\* descending, transactions of equal timestamp in the order of insertion.
C15_ListOrdered ==
    [][\A c \in Clients :
         (Starts(c) /\ req'[c].op = "get_transactions" /\ req'[c].gate = "Admitted")
         => LET l == req'[c].a.list
                t == req'[c].input.type
                rows == {txns[k] : k \in 1..Len(txns)}
                want == IF t \in {"masuk", "keluar"}
                        THEN {row \in rows : row.type = t} ELSE rows
            IN /\ {l[k] : k \in 1..Len(l)} = want
               /\ Len(l) = Cardinality(want)
               /\ \A j, k \in 1..Len(l) : j < k => l[j].timestamp >= l[k].timestamp
               /\ TiesByInsertion(l)]_vars

\* The requests whose commit writes the quantity of item i.
QuantityWriter(c, i) ==
    /\ Commits(c)
    /\ \/ req[c].op \in RecordOps /\ req'[c].result = "Created"
       \/ req[c].op = "update_inventory_item" /\ "quantity" \in req[c].a.set
    /\ req[c].a.item_id = i

\* C17: the quantity of an existing item changes only in the commit of a
\* record request on that item or of an update_item that carries a new
\* quantity for it, and an item appears only in the commit of a create_item,
\* with the quantity it was sent with; every other step (reads, deletes of
\* another item, user operations, login, logout, rejected requests) leaves
\* every item's quantity as it was.
C17_QuantityFrame ==
    [][/\ \A i \in DOMAIN items \cap DOMAIN items' :
            items'[i].quantity # items[i].quantity
            => \E c \in Clients : QuantityWriter(c, i)
       /\ \A i \in DOMAIN items' \ DOMAIN items :
            \E c \in Clients :
               /\ Commits(c) /\ req[c].op = "add_inventory_item"
               /\ req[c].a.item_id = i
               /\ items'[i].quantity = req[c].a.quantity
       /\ \A c \in Clients :
            (Starts(c) /\ req'[c].pc = "done") => items' = items]_vars

\* C17 witness: a second item was created, a movement was recorded on the
\* first item, the first item was renamed, and the other client was refused;
\* the second item has the quantity it was created with.
C17_Witness ==
    /\ ItemA \in DOMAIN items /\ ItemB \in DOMAIN items
    /\ items[ItemA].name = <<"n", "a">>
    /\ \E k \in 1..Len(txns) : txns[k].item_id = ItemA
    /\ items[ItemA].quantity # seed[ItemA]
    /\ items[ItemB].quantity = seed[ItemB]
    /\ req["c2"].pc = "done" /\ req["c2"].gate \in {"Forbidden", "Unauthenticated"}

====
